---- MODULE Spec2Model ----
(***************************************************************************)
(* Satellite telemetry service: the validation layer (TelemetryCreate),    *)
(* the telemetry table with its CHECK constraints, and the four handlers   *)
(* of the /telemetry router (create, get by id, delete by id, list with    *)
(* filters, ordering and pagination).                                      *)
(***************************************************************************)
EXTENDS Integers, Sequences, FiniteSets, TLC

VARIABLES
    store,        \* rows of the telemetry table
    clock,        \* datetime.utcnow(), in ticks
    resp,         \* the response to the last request
    lastCreated,  \* the record returned by a create that was the previous request
    maxAssigned,  \* the largest id the table has assigned so far (0: none)
    reqs          \* the requests of the concurrent clients, each with its progress

vars == <<store, clock, resp, lastCreated, maxAssigned, reqs>>

-----------------------------------------------------------------------------
(* Bounds of the model *)

MaxId == 2        \* ids handed out are capped (and so is the table's size)
MaxClock == 1     \* the clock stops ticking here
MaxPage == 2      \* valid page numbers tried: 1..MaxPage
MaxSize == 2      \* small page sizes tried: 1..MaxSize

(* Program constants *)

MaxSatIdLen == 64     \* Field(max_length=64), String(64), CHECK length <= 64
MaxPageSize == 100    \* Page: size is at most 100
DefaultSize == 50     \* Page: size when the request gives none

-----------------------------------------------------------------------------
(* Input values *)

Sat64 == "SSSSSSSSSSSSSSSSSSSSSSSSSSSSSSSSSSSSSSSSSSSSSSSSSSSSSSSSSSSSSSSS"
Sat65 == "SSSSSSSSSSSSSSSSSSSSSSSSSSSSSSSSSSSSSSSSSSSSSSSSSSSSSSSSSSSSSSSSS"

FieldNames == {"satelliteId", "timestamp", "altitude", "velocity", "status"}

\* TelemetryStatus: the enum's members (name, value)
TelemetryStatus == {[name |-> "HEALTHY", value |-> "healthy"],
                    [name |-> "CRITICAL", value |-> "critical"]}

StatusValues == {m.value : m \in TelemetryStatus}
StatusNames == {m.name : m \in TelemetryStatus}

\* Enum lookup by value (what pydantic does with the request's string)
EnumByValue(v) == CHOOSE m \in TelemetryStatus : m.value = v

\* Enum lookup by name (what SQLEnum does with the stored string)
EnumByName(n) == CHOOSE m \in TelemetryStatus : m.name = n

\* The timestamp texts of the requests tried, and what datetime parsing makes
\* of each: the hour, and whether the value carries a UTC offset.
TimestampTexts == {"2026-02-14T10:00:00", "2026-02-14T11:00:00",
                   "2026-02-14T11:00:00Z", "not-a-timestamp"}

ParsesAsDatetime(text) == text # "not-a-timestamp"

ParseDatetime(text) ==
    CASE text = "2026-02-14T10:00:00"  -> [hour |-> 10, aware |-> FALSE]
      [] text = "2026-02-14T11:00:00"  -> [hour |-> 11, aware |-> FALSE]
      [] text = "2026-02-14T11:00:00Z" -> [hour |-> 11, aware |-> TRUE]

\* Column(DateTime) on SQLite: the value is written field by field, its offset is dropped
StoreDatetime(dt) == [hour |-> dt.hour, aware |-> FALSE]

-----------------------------------------------------------------------------
(* Request bodies of POST /telemetry *)

SatIdTexts == {"", Sat64}
AltitudeValues == {550}
VelocityValues == {7}

\* Payloads every field of which is acceptable
GoodPayloads ==
    [satelliteId : SatIdTexts,
     timestamp   : {t \in TimestampTexts : ParsesAsDatetime(t)},
     altitude    : AltitudeValues,
     velocity    : VelocityValues,
     status      : StatusValues,
     missing     : {{}}]

\* What the tests put in place of one field of a good payload
BadValues(f) ==
    CASE f = "satelliteId" -> {Sat65}
      [] f = "timestamp"   -> {"not-a-timestamp"}
      [] f = "altitude"    -> {0, -100}
      [] f = "velocity"    -> {0, -7}
      [] f = "status"      -> {"unknown", "HEALTHY"}

\* One representative good payload, the base of the broken ones
BasePayload ==
    [satelliteId |-> Sat64, timestamp |-> "2026-02-14T10:00:00",
     altitude |-> 550, velocity |-> 7, status |-> "healthy", missing |-> {}]

\* The request bodies tried: the good ones, the base payload with any set of
\* fields left out, with one field broken, and with two fields broken at once
Payloads ==
    GoodPayloads
    \cup {[BasePayload EXCEPT !.missing = fs] : fs \in SUBSET FieldNames}
    \cup UNION {{[BasePayload EXCEPT ![f] = v] : v \in BadValues(f)} : f \in FieldNames}
    \cup {[BasePayload EXCEPT !.altitude = 0, !.velocity = 0],
          [BasePayload EXCEPT !.satelliteId = Sat65, !.status = "unknown"],
          [BasePayload EXCEPT !.satelliteId = "", !.altitude = 0]}

-----------------------------------------------------------------------------
(* Validation layer: TelemetryCreate *)

Present(p, f) == f \notin p.missing

\* satelliteId: str = Field(..., max_length=64)
SatelliteIdShort(p) == Len(p.satelliteId) < MaxSatIdLen
SatelliteIdOk(p) == Len(p.satelliteId) <= MaxSatIdLen

\* timestamp: datetime = Field(...)
TimestampOk(p) == ParsesAsDatetime(p.timestamp)

\* altitude: float = Field(..., gt=0)
AltitudeNotNegative(p) == p.altitude >= 0
AltitudeOk(p) == p.altitude > 0

\* velocity: float = Field(..., gt=0)
VelocityAny(p) == TRUE
VelocityOk(p) == p.velocity > 0

\* status: TelemetryStatus = Field(...)
StatusOk(p) == p.status \in StatusValues

FieldOk(p, f) ==
    CASE f = "satelliteId" -> SatelliteIdOk(p)
      [] f = "timestamp"   -> TimestampOk(p)
      [] f = "altitude"    -> AltitudeOk(p)
      [] f = "velocity"    -> VelocityOk(p)
      [] f = "status"      -> StatusOk(p)

\* The fields of payload p that fail: a required field that is absent, or a
\* present one that fails its check. Every field is reported.
ValidationErrors(p) == {f \in FieldNames : ~Present(p, f) \/ ~FieldOk(p, f)}

-----------------------------------------------------------------------------
(* Record store: the telemetry table *)

Max(S) == CHOOSE x \in S : \A y \in S : y <= x

Ids(tbl) == {r.id : r \in tbl}

\* Every row is given the first id
FirstRowId(tbl) == 1

\* id = Column(Integer, primary_key=True) on SQLite: the row id, one more than
\* the largest id in the table
NextRowId(tbl) == IF tbl = {} THEN 1 ELSE Max(Ids(tbl)) + 1

\* __table_args__: the three CHECK constraints
CheckSatelliteIdLength(row) == Len(row.satelliteId) <= MaxSatIdLen
CheckAltitudePositive(row) == row.altitude >= 0
CheckVelocityPositive(row) == row.velocity >= 0

StorageAccepts(row) ==
    CheckSatelliteIdLength(row) /\ CheckAltitudePositive(row) /\ CheckVelocityPositive(row)

\* Telemetry(**telemetry.model_dump()): the ORM object of a validated payload,
\* before it has an id
NewTelemetry(p) ==
    [satelliteId |-> p.satelliteId,
     timestamp   |-> ParseDatetime(p.timestamp),
     altitude    |-> p.altitude,
     velocity    |-> p.velocity,
     status      |-> EnumByValue(p.status)]

\* The row the INSERT writes for ORM object obj: the id the table assigns, the
\* datetime and the enum as the column types store them, and the two defaults
InsertedRow(obj, tbl, createdAt, updatedAt) ==
    [id          |-> NextRowId(tbl),
     satelliteId |-> obj.satelliteId,
     timestamp   |-> StoreDatetime(obj.timestamp),
     altitude    |-> obj.altitude,
     velocity    |-> obj.velocity,
     status      |-> obj.status.name,
     created     |-> createdAt,
     updated     |-> updatedAt]

\* TelemetryResponse: a row as the API returns it
TelemetryResponse(row) ==
    [id          |-> row.id,
     satelliteId |-> row.satelliteId,
     timestamp   |-> row.timestamp,
     altitude    |-> row.altitude,
     velocity    |-> row.velocity,
     status      |-> EnumByName(row.status).value,
     created     |-> row.created,
     updated     |-> row.updated]

\* db.refresh(obj): the object's attributes are read again from its row
NotRefreshed(obj, row, tbl) == [row EXCEPT !.timestamp = obj.timestamp]
Refreshed(obj, row, tbl) == CHOOSE r \in tbl : r.id = row.id

\* The query without its filter on id
RowsOfAnyId(tbl, id) == tbl

\* db.query(Telemetry).filter(Telemetry.id == id): the rows with that id
RowsById(tbl, id) == {r \in tbl : r.id = id}

\* The body of the previous response, when that request was a successful create
CreatedBy(r) == IF r.op = "create" /\ r.code = 200 THEN {r.body} ELSE {}

-----------------------------------------------------------------------------
(* Query parameters of GET /telemetry *)

FilterNames == {"satelliteId", "status"}
SatFilterTexts == {"", Sat64}
Pages == 1..MaxPage
Sizes == (1..MaxSize) \cup {DefaultSize}

\* A request names the filters it gives in `given`; a filter it does not give
\* has its field at a fixed value that is never read
GoodListRequests ==
    {q \in [satelliteId : SatFilterTexts, status : StatusValues,
            page : Pages, size : Sizes, given : SUBSET FilterNames] :
        /\ "satelliteId" \notin q.given => q.satelliteId = ""
        /\ "status" \notin q.given => q.status = "healthy"}

BaseListRequest ==
    [satelliteId |-> "", status |-> "healthy", page |-> 1, size |-> DefaultSize,
     given |-> {}]

ListRequests ==
    GoodListRequests
    \cup {[BaseListRequest EXCEPT !.page = 0],
          [BaseListRequest EXCEPT !.size = 0],
          [BaseListRequest EXCEPT !.size = MaxPageSize + 1],
          [BaseListRequest EXCEPT !.satelliteId = Sat65, !.given = {"satelliteId"}],
          [BaseListRequest EXCEPT !.status = "unknown", !.given = {"status"}]}

\* A size above the upper bound is let through
ListErrorsNoUpperBound(q) ==
    {f \in {"satelliteId"} : f \in q.given /\ Len(q.satelliteId) > MaxSatIdLen}
    \cup {f \in {"status"} : f \in q.given /\ q.status \notin StatusValues}
    \cup {f \in {"page"} : q.page < 1}
    \cup {f \in {"size"} : q.size < 1}

\* The parameters of request q that fail their check: Query(max_length=64), the
\* status enum, and the page's own page >= 1 and 1 <= size <= 100
ListErrors(q) ==
    {f \in {"satelliteId"} : f \in q.given /\ Len(q.satelliteId) > MaxSatIdLen}
    \cup {f \in {"status"} : f \in q.given /\ q.status \notin StatusValues}
    \cup {f \in {"page"} : q.page < 1}
    \cup {f \in {"size"} : q.size < 1 \/ q.size > MaxPageSize}

-----------------------------------------------------------------------------
(* Query engine: list_satellites *)

\* Python's truth value of the handler's arguments: None (not given) is false,
\* and so is the empty string; an enum member is true
SatelliteIdTruthy(q) == "satelliteId" \in q.given /\ q.satelliteId # ""
StatusTruthy(q) == "status" \in q.given

\* Telemetry.status == status compares the stored text with the member's name
StatusMatches(row, q) == row.status = EnumByValue(q.status).name

\* The if / elif / elif of the handler
Filtered(tbl, q) ==
    IF SatelliteIdTruthy(q) /\ StatusTruthy(q)
    THEN {r \in tbl : r.satelliteId = q.satelliteId /\ StatusMatches(r, q)}
    ELSE IF SatelliteIdTruthy(q)
    THEN {r \in tbl : r.satelliteId = q.satelliteId}
    ELSE IF StatusTruthy(q)
    THEN {r \in tbl : StatusMatches(r, q)}
    ELSE tbl

\* The arrangements of a set of rows in a sequence
Arrangements(rows) ==
    {s \in [1..Cardinality(rows) -> rows] :
        \A i, j \in 1..Cardinality(rows) : i # j => s[i] # s[j]}

OrderByTimestampAsc(rows) ==
    {s \in Arrangements(rows) :
        \A i, j \in 1..Len(s) : i < j => s[i].timestamp.hour <= s[j].timestamp.hour}

\* order_by(Telemetry.timestamp.desc()): the sort key is the timestamp alone, so
\* the statement may return rows of equal timestamp in any order
OrderByTimestampDesc(rows) ==
    {s \in Arrangements(rows) :
        \A i, j \in 1..Len(s) : i < j => s[i].timestamp.hour >= s[j].timestamp.hour}

-----------------------------------------------------------------------------
(* Pagination layer: paginate(query) *)

Min(a, b) == IF a <= b THEN a ELSE b

\* OFFSET of the page
PageOffsetFromZero(page, size) == page * size
PageOffset(page, size) == (page - 1) * size

\* query.limit(size).offset(offset) on the ordered rows
LimitOffset(ordered, size, offset) ==
    SubSeq(ordered, offset + 1, Min(offset + size, Len(ordered)))

\* SELECT count(*) over the filtered query
CountRows(rows) == Cardinality(rows)

\* The page of request q: the count, and the window of the ordered rows
PageOf(total, ordered, q) ==
    LET window == LimitOffset(ordered, q.size, PageOffset(q.page, q.size))
    IN [items |-> [k \in 1..Len(window) |-> TelemetryResponse(window[k])],
        total |-> total,
        page  |-> q.page,
        size  |-> q.size]

-----------------------------------------------------------------------------
(* State machine *)

NoResponse == [op |-> "none", code |-> 0]

\* The concurrent clients; each sends one request
NClients == 3
Clients == 1..NClients

\* A client that has not sent its request
Idle == [op |-> "none", stage |-> "idle"]

Init ==
    /\ store = {}
    /\ clock = 0
    /\ resp = NoResponse
    /\ lastCreated = {}
    /\ maxAssigned = 0
    /\ reqs = [c \in Clients |-> Idle]

\* db.add(obj); db.commit(): the row is written unless a CHECK constraint fails
AddAndCommit(row) ==
    IF StorageAccepts(row)
    THEN /\ store' = store \cup {row}
         /\ maxAssigned' = IF row.id > maxAssigned THEN row.id ELSE maxAssigned
    ELSE UNCHANGED <<store, maxAssigned>>

\* POST /telemetry. Both column defaults, created and updated, read the clock
\* at the INSERT; one tick of the model is longer than the time between the
\* two readings.
Create(p) ==
    /\ lastCreated' = CreatedBy(resp)
    /\ UNCHANGED reqs
    /\ IF ValidationErrors(p) # {}
       THEN /\ resp' = [op |-> "create", code |-> 422, payload |-> p,
                        errors |-> ValidationErrors(p)]
            /\ UNCHANGED <<store, clock, maxAssigned>>
       ELSE LET obj == NewTelemetry(p)
                row == InsertedRow(obj, store, clock, clock)
            IN   /\ row.id <= MaxId      \* the model's cap on ids
                 /\ AddAndCommit(row)
                 /\ UNCHANGED clock
                 /\ resp' = IF StorageAccepts(row)
                            THEN [op |-> "create", code |-> 200, payload |-> p,
                                  body |-> TelemetryResponse(
                                      Refreshed(obj, row, store'))]
                            ELSE [op |-> "create", code |-> 500, payload |-> p]

\* GET /telemetry/{id}
Get(id) ==
    /\ lastCreated' = CreatedBy(resp)
    /\ resp' = IF RowsById(store, id) = {}
               THEN [op |-> "get", code |-> 404, id |-> id]
               ELSE [op |-> "get", code |-> 200, id |-> id,
                     body |-> TelemetryResponse(CHOOSE r \in RowsById(store, id) : TRUE)]
    /\ UNCHANGED <<store, clock, maxAssigned, reqs>>

\* DELETE /telemetry/{id}
Delete(id) ==
    LET rows_deleted == Cardinality(RowsById(store, id))
    IN /\ lastCreated' = CreatedBy(resp)
       /\ store' = store \ RowsById(store, id)
       /\ resp' = IF rows_deleted = 0
                  THEN [op |-> "delete", code |-> 404, id |-> id]
                  ELSE [op |-> "delete", code |-> 200, id |-> id,
                        removed |-> rows_deleted]
       /\ UNCHANGED <<clock, maxAssigned, reqs>>

\* GET /telemetry
List(q) ==
    /\ lastCreated' = CreatedBy(resp)
    /\ IF ListErrors(q) # {}
       THEN resp' = [op |-> "list", code |-> 422, req |-> q, errors |-> ListErrors(q)]
       ELSE \E ordered \in OrderByTimestampDesc(Filtered(store, q)) :
              resp' = [op |-> "list", code |-> 200, req |-> q,
                       body |-> PageOf(CountRows(Filtered(store, q)), ordered, q)]
    /\ UNCHANGED <<store, clock, maxAssigned, reqs>>

\* Time passes between requests
Tick ==
    /\ clock < MaxClock
    /\ clock' = clock + 1
    /\ UNCHANGED <<store, resp, lastCreated, maxAssigned, reqs>>

RequestIds == 1..(MaxId + 1)

Next ==
    \/ \E p \in Payloads : Create(p)
    \/ \E id \in RequestIds : Get(id)
    \/ \E id \in RequestIds : Delete(id)
    \/ \E q \in ListRequests : List(q)
    \/ Tick

Spec == Init /\ [][Next]_vars

-----------------------------------------------------------------------------
(* The storage layer on its own: rows written through a database session,   *)
(* as the db_session fixture allows, without the validation layer in front  *)

\* ORM objects tried: each of the three constrained columns at, and on both
\* sides of, its limit
StoreCandidates ==
    [satelliteId : {"", Sat64, Sat65},
     timestamp   : {ParseDatetime("2026-02-14T10:00:00")},
     altitude    : {-100, 0, 550},
     velocity    : {-7, 0, 7},
     status      : {EnumByValue("healthy")}]

\* session.add(obj); session.commit()
StoreInsert(obj) ==
    LET row == InsertedRow(obj, store, clock, clock)
    IN /\ row.id <= MaxId      \* the model's cap on ids
       /\ AddAndCommit(row)
       /\ resp' = [op |-> "insert", code |-> IF StorageAccepts(row) THEN 200 ELSE 500,
                   obj |-> obj]
       /\ lastCreated' = CreatedBy(resp)
       /\ UNCHANGED <<clock, reqs>>

NextStore ==
    \/ \E obj \in StoreCandidates : StoreInsert(obj)
    \/ \E id \in RequestIds : Get(id)
    \/ \E id \in RequestIds : Delete(id)

SpecStore == Init /\ [][NextStore]_vars

-----------------------------------------------------------------------------
(* Concurrent requests. Every request runs its handler with a database      *)
(* session of its own (get_db); the statements the handlers run on the one  *)
(* database are the steps that interleave. A client sends one request and   *)
(* keeps its response.                                                      *)

\* Request bodies the concurrent clients post: two good ones and a bad one
ClientPayloads ==
    {BasePayload,
     [BasePayload EXCEPT !.satelliteId = "", !.status = "critical"],
     [BasePayload EXCEPT !.altitude = 0]}

\* List requests the concurrent clients send
ClientListRequests ==
    {BaseListRequest, [BaseListRequest EXCEPT !.page = 2, !.size = 1]}

\* Client c's request moves on to r
Becomes(c, r) == reqs' = [reqs EXCEPT ![c] = r]

AllIdle == \A c \in Clients : reqs[c] = Idle

\* POST /telemetry arrives: the body is validated against TelemetryCreate and
\* the ORM object is built
CreateSend(c, p) ==
    /\ reqs[c] = Idle
    /\ Becomes(c, IF ValidationErrors(p) # {}
                  THEN [op |-> "create", stage |-> "done", code |-> 422,
                        payload |-> p, errors |-> ValidationErrors(p)]
                  ELSE [op |-> "create", stage |-> "validated", payload |-> p])
    /\ UNCHANGED <<store, clock, resp, lastCreated, maxAssigned>>

\* db.add(obj); db.commit(): one INSERT, committed in its own transaction; the
\* database takes one writer at a time, so the id is chosen and the row written
\* in one step
CreateCommit(c) ==
    /\ reqs[c].op = "create" /\ reqs[c].stage = "validated"
    /\ LET obj == NewTelemetry(reqs[c].payload)
           row == InsertedRow(obj, store, clock, clock)
       IN /\ AddAndCommit(row)
          /\ Becomes(c, IF StorageAccepts(row)
                        THEN [op |-> "create", stage |-> "committed",
                              payload |-> reqs[c].payload, rowId |-> row.id]
                        ELSE [op |-> "create", stage |-> "done", code |-> 500,
                              payload |-> reqs[c].payload])
    /\ UNCHANGED <<clock, resp, lastCreated>>

\* db.refresh(obj); return obj: the row is read again by its id; a row that is
\* no longer there makes refresh raise
CreateRefresh(c) ==
    /\ reqs[c].op = "create" /\ reqs[c].stage = "committed"
    /\ Becomes(c, IF RowsById(store, reqs[c].rowId) = {}
                  THEN [op |-> "create", stage |-> "done", code |-> 500,
                        payload |-> reqs[c].payload]
                  ELSE [op |-> "create", stage |-> "done", code |-> 200,
                        payload |-> reqs[c].payload,
                        body |-> TelemetryResponse(
                            CHOOSE r \in RowsById(store, reqs[c].rowId) : TRUE)])
    /\ UNCHANGED <<store, clock, resp, lastCreated, maxAssigned>>

\* GET /telemetry/{id}: one SELECT
GetNow(c, id) ==
    /\ reqs[c] = Idle
    /\ Becomes(c, IF RowsById(store, id) = {}
                  THEN [op |-> "get", stage |-> "done", code |-> 404, id |-> id]
                  ELSE [op |-> "get", stage |-> "done", code |-> 200, id |-> id,
                        body |-> TelemetryResponse(
                            CHOOSE r \in RowsById(store, id) : TRUE)])
    /\ UNCHANGED <<store, clock, resp, lastCreated, maxAssigned>>

\* GET /telemetry arrives and paginate runs its first statement, the count
ListCount(c, q) ==
    /\ reqs[c] = Idle
    /\ Becomes(c, IF ListErrors(q) # {}
                  THEN [op |-> "list", stage |-> "done", code |-> 422, req |-> q,
                        errors |-> ListErrors(q)]
                  ELSE [op |-> "list", stage |-> "counted", req |-> q,
                        total |-> CountRows(Filtered(store, q))])
    /\ UNCHANGED <<store, clock, resp, lastCreated, maxAssigned>>

\* paginate runs its second statement, the LIMIT/OFFSET query, on the database
\* as it is by then: the session has written nothing, so no transaction holds
\* the two SELECTs together
ListFetch(c) ==
    /\ reqs[c].op = "list" /\ reqs[c].stage = "counted"
    /\ \E ordered \in OrderByTimestampDesc(Filtered(store, reqs[c].req)) :
         Becomes(c, [op |-> "list", stage |-> "done", code |-> 200,
                     req |-> reqs[c].req,
                     body |-> PageOf(reqs[c].total, ordered, reqs[c].req)])
    /\ UNCHANGED <<store, clock, resp, lastCreated, maxAssigned>>

\* DELETE /telemetry/{id} arrives; `existed` notes whether a record had the id
\* at that moment
DeleteSend(c, id) ==
    /\ reqs[c] = Idle
    /\ Becomes(c, [op |-> "delete", stage |-> "sent", id |-> id,
                   existed |-> (id \in Ids(store))])
    /\ UNCHANGED <<store, clock, resp, lastCreated, maxAssigned>>

\* The DELETE statement reports a row for every request
RowsDeletedAlwaysOne(tbl, id) == 1

\* rows_deleted: the number of rows the DELETE statement removed
RowsDeleted(tbl, id) == Cardinality(RowsById(tbl, id))

\* db.query(Telemetry).filter(Telemetry.id == id).delete(); db.commit(), and
\* the answer by rows_deleted; one writer at a time
DeleteExec(c) ==
    /\ reqs[c].op = "delete" /\ reqs[c].stage = "sent"
    /\ store' = store \ RowsById(store, reqs[c].id)
    /\ Becomes(c, IF RowsDeleted(store, reqs[c].id) = 0
                  THEN [op |-> "delete", stage |-> "done", code |-> 404,
                        id |-> reqs[c].id, existed |-> reqs[c].existed,
                        removed |-> 0]
                  ELSE [op |-> "delete", stage |-> "done", code |-> 200,
                        id |-> reqs[c].id, existed |-> reqs[c].existed,
                        removed |-> RowsDeleted(store, reqs[c].id)])
    /\ UNCHANGED <<clock, resp, lastCreated, maxAssigned>>

\* Concurrent creates, with gets and lists among them (the load test's
\* gather_posts)
NextCreates ==
    \/ \E c \in Clients, p \in ClientPayloads : CreateSend(c, p)
    \/ \E c \in Clients : CreateCommit(c)
    \/ \E c \in Clients : CreateRefresh(c)
    \/ \E c \in Clients, id \in RequestIds : GetNow(c, id)
    \/ \E c \in Clients, q \in ClientListRequests : ListCount(c, q)
    \/ \E c \in Clients : ListFetch(c)

SpecCreates == Init /\ [][NextCreates]_vars

\* Records are created one request after the other; then the clients send
\* their deletes, gets and lists together (the load test's delete_ids)
NextDeletes ==
    \/ \E p \in ClientPayloads : AllIdle /\ Create(p)
    \/ \E c \in Clients, id \in RequestIds : DeleteSend(c, id)
    \/ \E c \in Clients : DeleteExec(c)
    \/ \E c \in Clients, id \in RequestIds : GetNow(c, id)
    \/ \E c \in Clients, q \in ClientListRequests : ListCount(c, q)
    \/ \E c \in Clients : ListFetch(c)

SpecDeletes == Init /\ [][NextDeletes]_vars

-----------------------------------------------------------------------------
(* Properties *)

\* What the contract calls a payload that fails a validation check
PayloadFailsACheck(p) ==
    \/ p.missing # {}
    \/ p.timestamp = "not-a-timestamp"
    \/ p.altitude <= 0
    \/ p.velocity <= 0
    \/ p.status \notin {"healthy", "critical"}
    \/ Len(p.satelliteId) > 64

\* A payload whose fields other than satelliteId are all acceptable, and that
\* gives a satelliteId
OtherwiseValid(p) ==
    /\ p.missing = {}
    /\ p.timestamp # "not-a-timestamp"
    /\ p.altitude > 0
    /\ p.velocity > 0
    /\ p.status \in {"healthy", "critical"}

\* C1: a get of the id a create has just returned (no request in between)
\* succeeds and returns the record the create returned, equal in every field:
\* id, satelliteId, timestamp, altitude, velocity, status, created, updated.
C1_CreateThenGet ==
    \A c \in lastCreated :
        (resp.op = "get" /\ resp.id = c.id) => (resp.code = 200 /\ resp.body = c)

\* C1's case: a get has answered for the record created just before, with
\* another record in the table
C1_Witness ==
    /\ resp.op = "get" /\ resp.code = 200
    /\ lastCreated = {resp.body}
    /\ Cardinality(store) = 2

\* C2: a create whose payload fails a validation check (a field missing, an
\* unparseable timestamp, altitude <= 0, velocity <= 0, a status other than
\* healthy and critical, a satelliteId of more than 64 characters) is answered
\* 422 and leaves the stored records as they were.
C2_InvalidCreateRejected ==
    [][(resp'.op = "create" /\ PayloadFailsACheck(resp'.payload))
          => (resp'.code = 422 /\ store' = store)]_vars

\* C2's case: a create has been rejected while records are stored
C2_Witness ==
    /\ resp.op = "create" /\ resp.code = 422
    /\ PayloadFailsACheck(resp.payload)
    /\ store # {}

\* C3: every stored record has altitude > 0, velocity > 0, a status of healthy
\* or critical and a satelliteId of at most 64 characters, whatever requests
\* (rejected ones included) came before.
C3_StoredRecordsValid ==
    \A r \in store :
        /\ r.altitude > 0
        /\ r.velocity > 0
        /\ r.status \in StatusNames
        /\ TelemetryResponse(r).status \in {"healthy", "critical"}
        /\ Len(r.satelliteId) <= 64

\* C3's case: the table is full and the last request was a rejected create
C3_Witness ==
    /\ Cardinality(store) = MaxId
    /\ resp.op = "create" /\ resp.code = 422 /\ "velocity" \in resp.errors

\* C4 as stated: an otherwise valid payload is accepted exactly when its
\* satelliteId has between 1 and 64 characters.
C4_AcceptedIffOneTo64 ==
    (resp.op = "create" /\ OtherwiseValid(resp.payload))
        => (resp.code = 200 <=> (/\ 1 <= Len(resp.payload.satelliteId)
                                 /\ Len(resp.payload.satelliteId) <= 64))

\* C4 amended: an otherwise valid payload is accepted exactly when its
\* satelliteId has at most 64 characters, the empty string included; an
\* accepted satelliteId is returned and stored unchanged, and a rejection is a
\* 422.
C4_AcceptedIffAtMost64 ==
    (resp.op = "create" /\ OtherwiseValid(resp.payload))
        => /\ resp.code = 200 <=> Len(resp.payload.satelliteId) <= 64
           /\ resp.code # 200 => resp.code = 422
           /\ resp.code = 200 =>
                /\ resp.body.satelliteId = resp.payload.satelliteId
                /\ \E r \in store : /\ r.id = resp.body.id
                                    /\ r.satelliteId = resp.payload.satelliteId

\* C4's case: a 64-character satelliteId has just been accepted, next to a
\* stored record whose satelliteId is empty
C4_Witness ==
    /\ resp.op = "create" /\ resp.code = 200
    /\ Len(resp.payload.satelliteId) = 64
    /\ \E r \in store : r.satelliteId = ""

\* C5: the table's own constraints reject every row whose altitude or velocity
\* is not strictly positive (zero included) or whose satelliteId has more than
\* 64 characters.
C5_StorageRejectsInvalidRows ==
    (/\ resp.op = "insert"
     /\ \/ resp.obj.altitude <= 0
        \/ resp.obj.velocity <= 0
        \/ Len(resp.obj.satelliteId) > 64)
        => resp.code # 200

\* The items of a list response, and the ids in them
Items == resp.body.items
ItemIds(body) == {body.items[k].id : k \in 1..Len(body.items)}

ListAnswered == resp.op = "list" /\ resp.code = 200

\* The stored records, as the API shows them, that equal every filter the
\* request gives
MatchingGiven(q) ==
    {TelemetryResponse(r) : r \in
        {r \in store :
            /\ "satelliteId" \in q.given => r.satelliteId = q.satelliteId
            /\ "status" \in q.given => TelemetryResponse(r).status = q.status}}

\* Positions (p-1)*s+1 .. p*s of sequence `all`, as far as it goes
WindowOf(all, p, s) ==
    [k \in 1..(IF Len(all) - (p - 1) * s <= 0 THEN 0
               ELSE IF Len(all) - (p - 1) * s >= s THEN s
               ELSE Len(all) - (p - 1) * s) |-> all[(p - 1) * s + k]]

Descending(seq) ==
    \A k \in 1..(Len(seq) - 1) : seq[k].timestamp.hour >= seq[k + 1].timestamp.hour

C7_SelectsExactlyMatching ==
    ListAnswered
        => /\ resp.body.total = Cardinality(MatchingGiven(resp.req))
           /\ \A k \in 1..Len(Items) : Items[k] \in MatchingGiven(resp.req)

\* C8: the items of page p with size s are the elements at positions
\* (p-1)*s .. p*s-1 (counting from 0) of the ordered, filtered records, at most
\* s of them; a page at or beyond the end is answered 200 with no items and
\* with total, page and size filled in.
C8_PageIsWindow ==
    ListAnswered
        => /\ \E ordered \in OrderByTimestampDesc(Filtered(store, resp.req)) :
                Items = WindowOf([k \in 1..Len(ordered) |-> TelemetryResponse(ordered[k])],
                                 resp.req.page, resp.req.size)
           /\ Len(Items) <= resp.req.size
           /\ resp.body.page = resp.req.page
           /\ resp.body.size = resp.req.size
           /\ resp.body.total = Cardinality(Filtered(store, resp.req))
           /\ (resp.req.page - 1) * resp.req.size >= resp.body.total => Items = <<>>

\* C8's case: the second page of size 1 over two matching records
C8_Witness ==
    /\ ListAnswered
    /\ resp.req.page = 2 /\ resp.req.size = 1
    /\ resp.body.total = 2
    /\ Len(Items) = 1

\* C9: the total of a list response is the number of stored records that equal
\* every filter the request gives.
C9_TotalCountsMatching ==
    ListAnswered => resp.body.total = Cardinality(MatchingGiven(resp.req))

OutOfRange(q) == q.page < 1 \/ q.size < 1 \/ q.size > 100

\* C12: a list request with page < 1, size < 1 or size > 100 is answered 422
\* with the failing parameter named, not 200 with a page, and leaves the stored
\* records as they were.
C12_OutOfRangeRejected ==
    [][(resp' # resp /\ resp'.op = "list" /\ OutOfRange(resp'.req))
          => /\ resp'.code = 422
             /\ resp'.errors \cap {"page", "size"} # {}
             /\ store' = store]_vars

\* C12's case: a size above the upper bound has been rejected while records
\* are stored
C12_Witness ==
    /\ resp.op = "list" /\ resp.code = 422
    /\ resp.req.size = 101
    /\ "size" \in resp.errors
    /\ store # {}

\* C12's other cases: page 0 and size 0 have been rejected
C12_WitnessLow ==
    /\ resp.op = "list" /\ resp.code = 422
    /\ (resp.req.page = 0 \/ resp.req.size = 0)
    /\ store # {}

\* C13: a get or a delete of an id that no stored record has is answered 404,
\* which is neither a success nor the 422 of a validation error, and leaves the
\* stored records as they were.
C13_MissingIdNotFound ==
    [][(/\ resp' # resp
        /\ resp'.op \in {"get", "delete"}
        /\ resp'.id \notin Ids(store))
          => /\ resp'.code = 404
             /\ store' = store]_vars

\* C13's case: a delete of an id no record has was answered 404 while another
\* record is stored
C13_Witness ==
    /\ resp.op = "delete" /\ resp.code = 404
    /\ store # {}
    /\ resp.id \notin Ids(store)

\* C13's other case: a get of an id no record has was answered 404 while
\* another record is stored
C13_WitnessGet ==
    /\ resp.op = "get" /\ resp.code = 404
    /\ store # {}

\* The ids that were assigned and whose record has since been deleted: ids are
\* handed out from 1 upwards, so all of 1..maxAssigned have been assigned
DeletedIds == {i \in 1..maxAssigned : i \notin Ids(store)}

\* C14: a successful delete of an id removes the one record with that id and
\* no other; from then on no record is stored under that id, so a get of it is
\* answered 404 and no list response contains it or counts it.
C14_DeletedStaysDeleted ==
    [][/\ (resp' # resp /\ resp'.op = "delete" /\ resp'.code = 200)
            => /\ resp'.id \in Ids(store)
               /\ resp'.removed = 1
               /\ store' = {r \in store : r.id # resp'.id}
       /\ \A i \in DeletedIds :
            /\ i \notin Ids(store')
            /\ (resp' # resp /\ resp'.op = "get" /\ resp'.id = i)
                  => resp'.code = 404
            /\ (resp' # resp /\ resp'.op = "list" /\ resp'.code = 200)
                  => /\ i \notin ItemIds(resp'.body)
                     /\ resp'.body.total <= Cardinality(store)]_vars

\* C15: every id given to a new record is greater than every id assigned
\* before it, so no id is assigned twice, also after the record that held it
\* (the one with the highest id included) was deleted; and no two stored
\* records have the same id.
C15_IdsNeverReused ==
    [][/\ \A r \in store' \ store : r.id > maxAssigned
       /\ Cardinality(Ids(store')) = Cardinality(store')]_vars

\* C18: when a list request gives a satelliteId, the empty string included,
\* every item it returns has that satelliteId and its total counts only the
\* stored records with that satelliteId (and with the status, if one is given
\* too); only a request without the parameter is unfiltered on satelliteId.
C18_GivenSatelliteIdFilters ==
    (ListAnswered /\ "satelliteId" \in resp.req.given)
        => /\ \A k \in 1..Len(Items) : Items[k].satelliteId = resp.req.satelliteId
           /\ resp.body.total = Cardinality(MatchingGiven(resp.req))

\* The length of page `page` of size `size` over `total` rows
ExpectedLen(total, page, size) ==
    Min(size, IF total - (page - 1) * size > 0 THEN total - (page - 1) * size ELSE 0)

\* C16: the total and the items of one list response come from the same state
\* of the table, whatever other requests commit meanwhile: the items are the
\* requested slice of the total records counted, so there are no more items
\* than total and their number is min(size, max(0, total - (page-1)*size)).
C16_TotalAndItemsAgree ==
    \A c \in Clients :
        (reqs[c].op = "list" /\ reqs[c].stage = "done" /\ reqs[c].code = 200)
            => /\ Len(reqs[c].body.items) <= reqs[c].body.total
               /\ Len(reqs[c].body.items) =
                      ExpectedLen(reqs[c].body.total, reqs[c].req.page, reqs[c].req.size)

\* The columns of a stored record
RowFields ==
    {"id", "satelliteId", "timestamp", "altitude", "velocity", "status",
     "created", "updated"}

\* The clients whose create has added its row
Committed == {c \in Clients : reqs[c].op = "create" /\ reqs[c].stage = "committed"}
Succeeded ==
    {c \in Clients : reqs[c].op = "create" /\ reqs[c].stage = "done"
                     /\ reqs[c].code = 200}
CreatesInFlight ==
    {c \in Clients : reqs[c].op = "create" /\ reqs[c].stage # "done"}

\* The records of the table as the API shows them
Shown == {TelemetryResponse(r) : r \in store}

\* C17: under every interleaving of concurrent creates, with gets and lists
\* among them, a create answered 200 has added exactly one record, complete in
\* all its columns, built from its own payload and with an id no other create
\* was given; every record a get or list shows is such a complete stored
\* record; and once no create is in flight the number of stored records is the
\* number of creates answered 200.
C17_CreatesAtomic ==
    /\ \A r \in store : DOMAIN r = RowFields /\ StorageAccepts(r)
    /\ Cardinality(Ids(store)) = Cardinality(store)
    /\ Cardinality(store) = Cardinality(Committed) + Cardinality(Succeeded)
    /\ CreatesInFlight = {} => Cardinality(store) = Cardinality(Succeeded)
    /\ \A c \in Succeeded :
         /\ reqs[c].body \in Shown
         /\ reqs[c].body.satelliteId = reqs[c].payload.satelliteId
         /\ reqs[c].body.status = reqs[c].payload.status
         /\ \A d \in Succeeded \ {c} : reqs[d].body.id # reqs[c].body.id
    /\ \A c \in Clients :
         /\ (reqs[c].op = "get" /\ reqs[c].code = 200) => reqs[c].body \in Shown
         /\ (reqs[c].op = "list" /\ reqs[c].stage = "done" /\ reqs[c].code = 200)
               => \A k \in 1..Len(reqs[c].body.items) :
                     reqs[c].body.items[k] \in Shown

\* C17's case: two creates overlapped (the one whose row was written first is
\* still to be answered when the other has been answered 200), and another
\* client's get has shown a record
C17_Witness ==
    \E a, b, g \in Clients :
        /\ a \in Succeeded /\ b \in Committed
        /\ reqs[a].body.id > reqs[b].rowId
        /\ reqs[g].op = "get" /\ reqs[g].code = 200
        /\ Cardinality(store) = 2

\* Clients a and b have both been answered for a delete of the same id, and a
\* record had that id when each of the two requests arrived
RacedDeletes(a, b) ==
    /\ a # b
    /\ reqs[a].op = "delete" /\ reqs[a].stage = "done" /\ reqs[a].existed
    /\ reqs[b].op = "delete" /\ reqs[b].stage = "done" /\ reqs[b].existed
    /\ reqs[a].id = reqs[b].id

\* The clients whose delete of id k arrived while a record had that id
Racers(k) ==
    {c \in Clients : reqs[c].op = "delete" /\ reqs[c].id = k /\ reqs[c].existed}

\* C19: of two concurrent deletes of the same existing id (no third delete of
\* it racing with them), under every interleaving exactly one is answered 200
\* with one row removed and the other 404 with none; never are two deletes of
\* one record both answered 200; a delete removes the record with its id, once,
\* and no other record.
C19_OneDeleteWins ==
    [][/\ \A a, b \in Clients :
            RacedDeletes(a, b)'
                => /\ ~(reqs'[a].code = 200 /\ reqs'[b].code = 200)
                   /\ Racers(reqs[a].id)' = {a, b}
                        => \/ /\ reqs'[a].code = 200 /\ reqs'[a].removed = 1
                              /\ reqs'[b].code = 404 /\ reqs'[b].removed = 0
                           \/ /\ reqs'[b].code = 200 /\ reqs'[b].removed = 1
                              /\ reqs'[a].code = 404 /\ reqs'[a].removed = 0
       /\ \A c \in Clients :
            (reqs[c].op = "delete" /\ reqs[c].stage = "sent" /\ reqs'[c] # reqs[c])
                => /\ store' = {r \in store : r.id # reqs[c].id}
                   /\ Cardinality(store) - Cardinality(store') = reqs'[c].removed
                   /\ reqs'[c].removed <= 1]_vars

\* C19's case: two deletes of the same id that both arrived while the record
\* was there have been answered, and another record is still stored
C19_Witness ==
    /\ \E a, b \in Clients : RacedDeletes(a, b) /\ Racers(reqs[a].id) = {a, b}
    /\ store # {}

====
